---- MODULE Spec2Model ----
(***************************************************************************)
(* Model of discobolo-birthday-sender.                                     *)
(*                                                                         *)
(*   birthdays_google.py    the send ledger (already_sent,                 *)
(*                          record_email_sending) and the orchestrator     *)
(*                          run_birthday_emails                            *)
(*   make_birthday_card.py  fit_font_size and default_bottom_box           *)
(*                                                                         *)
(* Five specifications share the module:                                   *)
(*   Spec        runs of run_birthday_emails, one after the other          *)
(*   SpecLedger  a client calling the two ledger functions in any order    *)
(*   SpecCard    the pure functions of make_birthday_card.py               *)
(*   SpecDraw    the font draw_centered_text picks for two boxes            *)
(*   SpecMatch   obtain_birthday on any directory of contacts and groups   *)
(***************************************************************************)
EXTENDS Integers, Sequences, FiniteSets, TLC

\* ------------------------------------------------------------- bounds

\* Calendar days the clock can show.
MaxDay == 2
\* Runs of run_birthday_emails in one behaviour.
MaxRuns == 3
\* Entries of one day's match list.
MaxMatches == 2
\* Direct calls of record_email_sending in one behaviour of SpecLedger.
MaxCalls == 3
\* Font sizes the fitter is tried on: 1..MaxPt.
MaxPt == 4
\* Measured widths and heights, and target widths and heights: 0..MaxExt.
MaxExt == 1
\* Tallest box draw_centered_text is given.
MaxBoxH == 27

\* ------------------------------------------------------------- values

\* The days, as strftime("%Y-%m-%d") and date.isoformat() both print them.
IsoDates == <<"2025-06-01", "2025-06-02", "2025-06-03", "2025-06-04">>

Days == 1..MaxDay

\* (displayName, email) pairs the directory can return.  One display name is
\* a string pandas reads as a missing value.
Contacts == {<<"Ana", "ana@club">>, <<"NA", "na@club">>}

Emails == {c[2] : c \in Contacts}

RECURSIVE SeqsUpTo(_, _)
SeqsUpTo(S, n) ==
    IF n = 0 THEN {<<>>}
    ELSE LET shorter == SeqsUpTo(S, n - 1)
         IN  shorter \cup {Append(s, x) : s \in {t \in shorter : Len(t) = n - 1}, x \in S}

\* What obtain_birthday can return: any list of contacts, repeats included.
MatchLists == SeqsUpTo(Contacts, MaxMatches)

\* ------------------------------------------------------------- state

VARIABLES
    storage,    \* sent_birthdays.csv: "absent", "empty" (0 bytes) or "table"
    ledger,     \* the rows of the table, in file order: [name, email, date]
    today,      \* the local calendar day, an index into IsoDates
    birthdays,  \* the match list of the current run
    idx,        \* position of the for loop in birthdays
    pc,         \* "idle", "check", "send", "record"
    failure,    \* why the last run ended: "none", "send", "ledger"
    runs,       \* runs started so far
    outbox,     \* [email, day] -> emails delivered to email on that day
    runSent,    \* deliveries of the current run, in order: <<email, date>>
    runLogged,  \* rows appended by the current run, in order: <<email, date>>
    last,       \* the last direct call of a ledger function (SpecLedger)
    card,       \* the last call of a make_birthday_card function (SpecCard)
    match       \* the last call of obtain_birthday (SpecMatch)

vars == <<storage, ledger, today, birthdays, idx, pc, failure, runs, outbox,
          runSent, runLogged, last, card, match>>

\* ------------------------------------------------------------- the ledger file

\* datetime.datetime.now().strftime("%Y-%m-%d")
StrftimeToday(day) == IsoDates[day]

\* datetime.date.today().isoformat()
IsoformatToday(day) == IsoDates[day]

\* LOG_PATH.exists, the bound method itself: an object, always truthy.
PathExistsAttr == TRUE

\* LOG_PATH.exists()
PathExists(st) == st # "absent"

\* csv.DictReader over the file: the rows as written, every cell a string.
\* A 0-byte file has no header and yields no rows.
DictReaderRows(st, rows) == IF st = "table" THEN rows ELSE <<>>

\* already_sent with the comparison of the date left out: any row of the
\* email counts.  C6 tells the two apart.
already_sent_any_day(email, st, rows, day) ==
    IF ~PathExistsAttr THEN [raised |-> FALSE, value |-> FALSE]
    ELSE IF st = "absent" THEN [raised |-> TRUE, value |-> FALSE]
    ELSE LET rd == DictReaderRows(st, rows)
         IN  [raised |-> FALSE,
              value  |-> \E i \in 1..Len(rd) : rd[i].email = email]

\* already_sent(email): [raised, value].  open() of a missing file raises
\* FileNotFoundError.
already_sent(email, st, rows, day) ==
    LET t == StrftimeToday(day) IN
    IF ~PathExistsAttr THEN [raised |-> FALSE, value |-> FALSE]
    ELSE IF st = "absent" THEN [raised |-> TRUE, value |-> FALSE]
    ELSE LET rd == DictReaderRows(st, rows)
         IN  [raised |-> FALSE,
              value  |-> \E i \in 1..Len(rd) : rd[i].email = email /\ rd[i].date = t]

\* The strings pandas.read_csv turns into NaN by default.
NAValues == {"", "#N/A", "N/A", "NA", "NULL", "NaN", "None", "n/a", "nan", "null"}

\* A missing cell of a DataFrame (float nan), which is no string of the file.
NaN == "float(nan)"

ReadCell(v) == IF v \in NAValues THEN NaN ELSE v

\* pd.read_csv(LOG_PATH) of a file with a header row.
read_csv(rows) ==
    [i \in 1..Len(rows) |->
        [name  |-> ReadCell(rows[i].name),
         email |-> ReadCell(rows[i].email),
         date  |-> ReadCell(rows[i].date)]]

\* to_csv writes a missing cell as na_rep, the empty string.
WriteCell(v) == IF v = NaN THEN "" ELSE v

\* actual.to_csv(LOG_PATH, index=False)
to_csv(frame) ==
    [i \in 1..Len(frame) |->
        [name  |-> WriteCell(frame[i].name),
         email |-> WriteCell(frame[i].email),
         date  |-> WriteCell(frame[i].date)]]

\* pd.DataFrame([{"name": name, "email": email, "date": today}])
NewFrame(name, email, day) ==
    <<[name |-> name, email |-> email, date |-> IsoformatToday(day)]>>

\* record_email_sending(name, email) with the file system answering ioOk:
\* [raised, storage, ledger].  pd.read_csv of a 0-byte file raises
\* EmptyDataError; a read or write the file system refuses raises OSError.
record_email_sending(name, email, st, rows, day, ioOk) ==
    LET new == NewFrame(name, email, day) IN
    IF ~ioOk \/ (PathExists(st) /\ st = "empty")
    THEN [raised |-> TRUE, storage |-> st, ledger |-> rows]
    ELSE LET actual == IF PathExists(st) THEN read_csv(rows) \o new ELSE new
         IN  [raised |-> FALSE, storage |-> "table", ledger |-> to_csv(actual)]

\* ------------------------------------------------------------- initial state

NoCall == [op |-> "none", name |-> "", email |-> "", day |-> 1, raised |-> FALSE,
           value |-> FALSE, stBefore |-> "absent", before |-> <<>>]

Init ==
    /\ storage \in {"absent", "empty", "table"}
    /\ ledger = <<>>
    /\ today = 1
    /\ birthdays = <<>>
    /\ idx = 1
    /\ pc = "idle"
    /\ failure = "none"
    /\ runs = 0
    /\ outbox = [e \in Emails, d \in Days |-> 0]
    /\ runSent = <<>>
    /\ runLogged = <<>>
    /\ last = NoCall
    /\ card = [fn |-> "none"]
    /\ match = [fn |-> "none"]

\* The clock moves on its own: each ledger function reads it when called.
Tick ==
    /\ today < MaxDay
    /\ today' = today + 1
    /\ UNCHANGED <<storage, ledger, birthdays, idx, pc, failure, runs, outbox,
                   runSent, runLogged, last, card, match>>

\* ------------------------------------------------------------- run_birthday_emails

\* authenticate(), obtain_birthday(creds), and the branch on an empty list.
StartRun ==
    /\ pc = "idle"
    /\ runs < MaxRuns
    /\ \E b \in MatchLists :
        /\ birthdays' = b
        /\ pc' = IF b = <<>> THEN "idle" ELSE "check"
    /\ idx' = 1
    /\ failure' = "none"
    /\ runs' = runs + 1
    /\ runSent' = <<>>
    /\ runLogged' = <<>>
    /\ UNCHANGED <<storage, ledger, today, outbox, last, card, match>>

\* if already_sent(email): continue
CheckLedger ==
    /\ pc = "check"
    /\ idx <= Len(birthdays)
    /\ LET r == already_sent(birthdays[idx][2], storage, ledger, today) IN
        IF r.raised THEN /\ pc' = "idle"
                         /\ failure' = "ledger"
                         /\ idx' = idx
        ELSE IF r.value THEN /\ pc' = "check"
                             /\ failure' = failure
                             /\ idx' = idx + 1
        ELSE /\ pc' = "send"
             /\ failure' = failure
             /\ idx' = idx
    /\ UNCHANGED <<storage, ledger, today, birthdays, runs, outbox, runSent,
                   runLogged, last, card, match>>

\* send_email(email, name, image_path): delivered, or an exception (the card
\* file cannot be read, SMTP login or delivery fails) that ends the run.
SendEmail ==
    /\ pc = "send"
    /\ \E delivered \in BOOLEAN :
        IF delivered
        THEN /\ outbox' = [outbox EXCEPT ![birthdays[idx][2], today] = @ + 1]
             /\ runSent' = Append(runSent, <<birthdays[idx][2], IsoDates[today]>>)
             /\ pc' = "record"
             /\ failure' = failure
        ELSE /\ pc' = "idle"
             /\ failure' = "send"
             /\ UNCHANGED <<outbox, runSent>>
    /\ UNCHANGED <<storage, ledger, today, birthdays, idx, runs, runLogged, last, card, match>>

\* record_email_sending(name, email), then the next iteration.
RecordSending ==
    /\ pc = "record"
    /\ \E ioOk \in BOOLEAN :
        LET r == record_email_sending(birthdays[idx][1], birthdays[idx][2],
                                      storage, ledger, today, ioOk) IN
        /\ storage' = r.storage
        /\ ledger' = r.ledger
        /\ IF r.raised
           THEN /\ pc' = "idle"
                /\ failure' = "ledger"
                /\ idx' = idx
                /\ runLogged' = runLogged
           ELSE /\ pc' = "check"
                /\ failure' = failure
                /\ idx' = idx + 1
                /\ runLogged' = Append(runLogged,
                                       <<birthdays[idx][2], IsoformatToday(today)>>)
    /\ UNCHANGED <<today, birthdays, runs, outbox, runSent, last, card, match>>

\* The for loop is exhausted: the run returns.
FinishRun ==
    /\ pc = "check"
    /\ idx > Len(birthdays)
    /\ pc' = "idle"
    /\ UNCHANGED <<storage, ledger, today, birthdays, idx, failure, runs, outbox,
                   runSent, runLogged, last, card, match>>

Next == StartRun \/ CheckLedger \/ SendEmail \/ RecordSending \/ FinishRun \/ Tick

Spec == Init /\ [][Next]_vars

\* ------------------------------------------------------------- direct calls

\* A client calls already_sent(email).
CallAlreadySent ==
    /\ pc = "idle"
    /\ \E e \in Emails :
        LET r == already_sent(e, storage, ledger, today) IN
        last' = [op |-> "already_sent", name |-> "", email |-> e, day |-> today,
                 raised |-> r.raised, value |-> r.value,
                 stBefore |-> storage, before |-> ledger]
    /\ UNCHANGED <<storage, ledger, today, birthdays, idx, pc, failure, runs,
                   outbox, runSent, runLogged, card, match>>

\* A client calls record_email_sending(name, email).
CallRecord ==
    /\ pc = "idle"
    /\ Len(ledger) < MaxCalls
    /\ \E c \in Contacts, ioOk \in BOOLEAN :
        LET r == record_email_sending(c[1], c[2], storage, ledger, today, ioOk) IN
        /\ storage' = r.storage
        /\ ledger' = r.ledger
        /\ last' = [op |-> "record", name |-> c[1], email |-> c[2], day |-> today,
                    raised |-> r.raised, value |-> FALSE,
                    stBefore |-> storage, before |-> ledger]
    /\ UNCHANGED <<today, birthdays, idx, pc, failure, runs, outbox, runSent,
                   runLogged, card, match>>

NextLedger == CallAlreadySent \/ CallRecord \/ Tick

SpecLedger == Init /\ [][NextLedger]_vars

\* ------------------------------------------------------------- make_birthday_card.py

Sizes == 1..MaxPt

Extents == 0..MaxExt

\* What draw.textbbox can measure for one text and font file, per point size:
\* any width, and a height that does not shrink as the size grows.
WidthsBySize == [Sizes -> Extents]

HeightsBySize ==
    {f \in [Sizes -> Extents] : \A s \in 1..(MaxPt - 1) : f[s] <= f[s + 1]}

\* load_font(font_path, size): the font at that size.
load_font(size) == [size |-> size]

\* text_bbox(draw, text, font): (width, height) of the text in that font.
text_bbox(W, H, font) == <<W[font.size], H[font.size]>>

\* The loop with the condition lo < hi, which never tries the last candidate.
\* C8 tells the two apart.
RECURSIVE FitLoopStrict(_, _, _, _, _, _, _)
FitLoopStrict(lo, hi, best, W, H, target_w, target_h) ==
    IF lo < hi
    THEN LET mid == (lo + hi) \div 2
             f   == load_font(mid)
             wh  == text_bbox(W, H, f)
         IN  IF wh[1] <= target_w /\ wh[2] <= target_h
             THEN FitLoopStrict(mid + 1, hi, f, W, H, target_w, target_h)
             ELSE FitLoopStrict(lo, mid - 1, best, W, H, target_w, target_h)
    ELSE best

\* The while loop of fit_font_size.
RECURSIVE FitLoop(_, _, _, _, _, _, _)
FitLoop(lo, hi, best, W, H, target_w, target_h) ==
    IF lo <= hi
    THEN LET mid == (lo + hi) \div 2
             f   == load_font(mid)
             wh  == text_bbox(W, H, f)
         IN  IF wh[1] <= target_w /\ wh[2] <= target_h
             THEN FitLoop(mid + 1, hi, f, W, H, target_w, target_h)
             ELSE FitLoop(lo, mid - 1, best, W, H, target_w, target_h)
    ELSE best

\* fit_font_size starting from the font at max_size.  C9 tells the two apart.
fit_font_size_best_hi(W, H, target_w, target_h, max_size, min_size) ==
    FitLoop(min_size, max_size, load_font(max_size), W, H, target_w, target_h)

\* fit_font_size(draw, text, font_path, target_w, target_h, max_size, min_size)
fit_font_size(W, H, target_w, target_h, max_size, min_size) ==
    FitLoop(min_size, max_size, load_font(min_size), W, H, target_w, target_h)

\* Template heights and bottom_ratio values (in hundredths) the box is
\* computed for.
TemplateWidths == {800, 1080, 1200}

TemplateHeights == {100, 600, 1080, 1350}

RatiosPct == {23, 25, 29, 41}

Margins == {0, 10, 24}

\* The (H, ratio) pairs above whose double product H * ratio lies just below
\* the integer H * pct / 100: 100 * 0.29 is 28.999999999999996 and
\* 600 * 0.41 is 245.99999999999997.
RoundsBelow == {<<100, 29>>, <<600, 41>>}

\* int(H * bottom_ratio), bottom_ratio the double nearest pct / 100.
IntOfProduct(H, pct) ==
    IF <<H, pct>> \in RoundsBelow THEN (H * pct) \div 100 - 1 ELSE (H * pct) \div 100

\* default_bottom_box with y taken from h after the margins are removed.
\* C10 tells the two apart.
default_bottom_box_late_y(W, H, pct, margin) ==
    LET h0 == IntOfProduct(H, pct)
        x  == margin
        w  == W - 2 * margin
        h  == h0 - 2 * margin
        y  == H - h + margin
    IN  <<x, y, w, h>>

\* default_bottom_box(W, H, bottom_ratio, margin), bottom_ratio = pct / 100.
default_bottom_box(W, H, pct, margin) ==
    LET h0 == IntOfProduct(H, pct)
        x  == margin
        w  == W - 2 * margin
        y  == H - h0 + margin
        h  == h0 - 2 * margin
    IN  <<x, y, w, h>>

\* One call of fit_font_size, on any text and target.
FitCall ==
    /\ card.fn = "none"
    /\ \E W \in WidthsBySize, H \in HeightsBySize, tw \in Extents, th \in Extents,
       mx \in 0..MaxPt, mn \in Sizes :
        /\ card' = [fn |-> "fit", W |-> W, H |-> H, target_w |-> tw, target_h |-> th,
                    max_size |-> mx, min_size |-> mn,
                    font |-> fit_font_size(W, H, tw, th, mx, mn)]
        /\ UNCHANGED <<storage, ledger, today, birthdays, idx, pc, failure, runs,
                       outbox, runSent, runLogged, last, match>>

\* One call of default_bottom_box.
BoxCall ==
    /\ card.fn = "none"
    /\ \E W \in TemplateWidths, H \in TemplateHeights, pct \in RatiosPct, m \in Margins :
        /\ card' = [fn |-> "box", W |-> W, H |-> H, pct |-> pct, margin |-> m,
                    box |-> default_bottom_box(W, H, pct, m)]
        /\ UNCHANGED <<storage, ledger, today, birthdays, idx, pc, failure, runs,
                       outbox, runSent, runLogged, last, match>>

InitCard == Init /\ storage = "absent"

NextCard == FitCall \/ BoxCall

SpecCard == InitCard /\ [][NextCard]_vars

\* ------------------------------------------------------------- draw_centered_text

\* min_size, the default of fit_font_size.
MinSizeDefault == 16

\* The inner margin draw_centered_text takes off the box on each axis.
InnerMargin == 8

\* The heights h up to 200 whose double product h * 0.7 lies just below the
\* integer 7h / 10: 90 * 0.7 is 62.99999999999999.
SevenTenthsRoundsBelow == {90, 170, 180}

\* int(h * 0.7)
IntOfSevenTenths(h) ==
    IF h \in SevenTenthsRoundsBelow THEN (h * 7) \div 10 - 1 ELSE (h * 7) \div 10

\* The font draw_centered_text fits for the box (x, y, w, h).
draw_centered_text(W, H, w, h) ==
    fit_font_size(W, H, w - InnerMargin, h - InnerMargin, IntOfSevenTenths(h),
                  MinSizeDefault)

\* Boxes: from a height whose 0.7 is below min_size up to MaxBoxH, and widths
\* around the widths the text can have.
BoxHeights == 22..MaxBoxH

BoxWidths == {20, 30, 40}

\* The sizes the fitter can probe for these boxes.
DrawSizes == MinSizeDefault..IntOfSevenTenths(MaxBoxH)

\* What draw.textbbox can measure for one text and font file, per point size:
\* any width, and a height that does not shrink as the size grows.
DrawWidthsBySize == [DrawSizes -> {10, 20, 30, 40}]

DrawHeightsBySize ==
    {f \in [DrawSizes -> {13, 16, 18, 21}] :
        \A s \in DrawSizes : s + 1 \in DrawSizes => f[s] <= f[s + 1]}

\* The same text and font drawn into two boxes, the second at least as wide
\* and as tall as the first.
DrawCall ==
    /\ card.fn = "none"
    /\ \E W \in DrawWidthsBySize, H \in DrawHeightsBySize,
          w1 \in BoxWidths, w2 \in BoxWidths, h1 \in BoxHeights, h2 \in BoxHeights :
        /\ w1 <= w2
        /\ h1 <= h2
        /\ card' = [fn |-> "draw", W |-> W, H |-> H,
                    w1 |-> w1, h1 |-> h1, w2 |-> w2, h2 |-> h2,
                    font1 |-> draw_centered_text(W, H, w1, h1),
                    font2 |-> draw_centered_text(W, H, w2, h2)]
    /\ UNCHANGED <<storage, ledger, today, birthdays, idx, pc, failure, runs,
                   outbox, runSent, runLogged, last, match>>

NextDraw == DrawCall

SpecDraw == InitCard /\ [][NextDraw]_vars

\* ------------------------------------------------------------- obtain_birthday

\* None, as a value of a resource name.
None == "None"

\* GMAIL_GROUP_ID, the name of the configured group.
GMAIL_GROUP_ID == "DIFUSION SOCIOS 2025"

\* str.strip().lower() on the group names that occur.
StripLower(s) ==
    CASE s = "DIFUSION SOCIOS 2025"   -> "difusion socios 2025"
      [] s = " Difusion Socios 2025 " -> "difusion socios 2025"
      [] s = "Otros"                  -> "otros"
      [] OTHER                        -> s

\* The contact groups an account can hold: the configured one, under its
\* name or a spelling that differs in case and outer blanks, and another one.
GroupLists ==
    LET ga == {[name |-> n, resourceName |-> "contactGroups/a"] :
                  n \in {"DIFUSION SOCIOS 2025", " Difusion Socios 2025 "}}
        gb == [name |-> "Otros", resourceName |-> "contactGroups/b"]
    IN  {<<>>, <<gb>>} \cup {<<g>> : g \in ga}
           \cup {<<g, gb>> : g \in ga} \cup {<<gb, g>> : g \in ga}

\* GMAIL_FALLBACK_ID: unset, or the resource name of the configured group.
Fallbacks == {None, "contactGroups/a"}

\* What a membership entry g gives for
\* g.get("contactGroupMembership", {}).get("contactGroupResourceName"):
\* the resource name of a group, or None for a domain membership.
MembershipKeys == {"contactGroups/a", "contactGroups/b", None}

\* person.get("birthdays", [{}])[0].get("date") of a contact with no birthday.
NoBirthday == <<>>

\* Birthdays as (month, day): each day the clock can show, a day of another
\* month, or none.
BirthdayDates == {<<6, d>> : d \in Days} \cup {<<7, 1>>, NoBirthday}

\* The connections: the two contacts, in the order the directory lists them,
\* each with any memberships and any birthday.
ConnectionLists ==
    {<<[name |-> "Ana", email |-> "ana@club", memberships |-> m1, birthday |-> b1],
       [name |-> "NA", email |-> "na@club", memberships |-> m2, birthday |-> b2]>> :
        m1 \in SUBSET MembershipKeys, m2 \in SUBSET MembershipKeys,
        b1 \in BirthdayDates, b2 \in BirthdayDates}

\* The for loop of obtain_resource_group_name, whose body returns on its first
\* pass: the resource name when the name matches, else the fallback or None.
\* An empty list falls off the loop: None.
GroupLoop(groups, i, group_name, fallback) ==
    IF i > Len(groups) THEN None
    ELSE IF StripLower(groups[i].name) = StripLower(group_name)
         THEN groups[i].resourceName
         ELSE IF fallback # None THEN fallback ELSE None

\* obtain_resource_group_name(service, group_name, fallback_resource_name)
obtain_resource_group_name(groups, group_name, fallback) ==
    GroupLoop(groups, 1, group_name, fallback)

\* f"{month:02d}-{day:02d}" and strftime("%m-%d"): month and day, both padded
\* to two digits.
MesDia(date) == <<date[1], date[2]>>

Hoy(day) == <<6, day>>

\* any(... == contact_group_id for g in groups)
Belong(person, contact_group_id) == contact_group_id \in person.memberships

\* The loop of obtain_birthday over the connections, from position i.
RECURSIVE BirthdayLoop(_, _, _, _)
BirthdayLoop(conns, i, contact_group_id, day) ==
    IF i > Len(conns) THEN <<>>
    ELSE LET person == conns[i]
             rest   == BirthdayLoop(conns, i + 1, contact_group_id, day)
         IN  IF ~Belong(person, contact_group_id) THEN rest
             ELSE IF person.birthday # NoBirthday /\ MesDia(person.birthday) = Hoy(day)
                  THEN <<<<person.name, person.email>>>> \o rest
                  ELSE rest

\* obtain_birthday(creds) on a directory holding these groups and connections.
obtain_birthday(groups, conns, fallback, day) ==
    BirthdayLoop(conns, 1,
                 obtain_resource_group_name(groups, GMAIL_GROUP_ID, fallback), day)

\* One call of obtain_birthday.
ObtainCall ==
    /\ match.fn = "none"
    /\ \E g \in GroupLists, c \in ConnectionLists, fb \in Fallbacks :
        match' = [fn |-> "obtain", groups |-> g, conns |-> c, fallback |-> fb,
                  day |-> today, birthdays |-> obtain_birthday(g, c, fb, today)]
    /\ UNCHANGED <<storage, ledger, today, birthdays, idx, pc, failure, runs,
                   outbox, runSent, runLogged, last, card>>

\* The day the call is made on.
MatchTick ==
    /\ match.fn = "none"
    /\ Tick

InitMatch == Init /\ storage = "absent"

NextMatch == ObtainCall \/ MatchTick

SpecMatch == InitMatch /\ [][NextMatch]_vars

\* ------------------------------------------------------------- claims: the ledger

\* The ledger holds a row with exactly this email and this day.
HasRow(rows, email, day) ==
    \E i \in 1..Len(rows) : rows[i].email = email /\ rows[i].date = IsoDates[day]

\* C1: over any sequence of runs, aborted ones included, at most one birthday
\* email is delivered per (recipient email, calendar day).
C1_AtMostOncePerDay ==
    \A e \in Emails, d \in Days : outbox[e, d] <= 1

IsPrefix(s, t) == Len(s) <= Len(t) /\ \A i \in 1..Len(s) : s[i] = t[i]

\* C2: a row for (email, date) is appended iff a send for that (email, date)
\* completed: the rows a run appended never run ahead of its completed sends,
\* and between iterations, and when the run has ended, each completed send has
\* its row.
C2_RecordIffSendCompleted ==
    /\ IsPrefix(runLogged, runSent)
    /\ pc \in {"idle", "check"} => runLogged = runSent

\* C3: with the ledger file missing, already_sent returns False without
\* raising, and record_email_sending creates the file holding exactly the one
\* new row.
C3_AbsentStorageTolerated ==
    /\ (last.op = "already_sent" /\ last.stBefore = "absent")
          => (~last.raised /\ last.value = FALSE)
    /\ (last.op = "record" /\ last.stBefore = "absent" /\ ~last.raised)
          => /\ storage = "table"
             /\ ledger = <<[name |-> last.name, email |-> last.email,
                            date |-> IsoDates[last.day]]>>

\* C4: already_sent(email) returns True iff the ledger holds a row with that
\* email and the current day, in every state of the ledger.
C4_AlreadySentIffRow ==
    last.op = "already_sent"
        => /\ ~last.raised
           /\ last.value = HasRow(last.before, last.email, last.day)

\* C5: a call of record_email_sending that returns leaves the ledger equal to
\* its previous rows, unchanged and in order, followed by the one new row.
C5_AppendOnly ==
    (last.op = "record" /\ ~last.raised)
        => ledger = Append(last.before,
                           [name |-> last.name, email |-> last.email,
                            date |-> IsoDates[last.day]])

\* ------------------------------------------------------------- claims: the run

\* The recipient the loop is at.
CurEmail == birthdays[idx][2]

\* C6: a recipient with a row for today is skipped (no send, no row appended);
\* the same recipient, with only rows of earlier days, is not skipped and
\* send_email is called for them.
C6_SkippedTodayEligibleNextDay ==
    [][(/\ pc = "check"
        /\ idx <= Len(birthdays)
        /\ storage = "table"
        /\ <<pc, idx>>' # <<pc, idx>>)
       => IF HasRow(ledger, CurEmail, today)
          THEN /\ pc' = "check"
               /\ idx' = idx + 1
               /\ UNCHANGED <<ledger, outbox, runSent, runLogged>>
          ELSE /\ pc' = "send"
               /\ idx' = idx]_vars

\* A later run, on the second day, has delivered to a recipient whose row of
\* the first day is in the ledger.
C6_Witness ==
    /\ pc = "record"
    /\ today = 2
    /\ runs >= 2
    /\ HasRow(ledger, CurEmail, 1)
    /\ outbox[CurEmail, 1] = 1
    /\ outbox[CurEmail, 2] = 1

\* C7: a send that fails does not end the run: no recipient after the failing
\* one is left unprocessed.
C7_SendFailureDoesNotAbort ==
    (pc = "idle" /\ failure = "send") => idx >= Len(birthdays)

\* ------------------------------------------------------------- claims: the card

\* The text at this size fits the target.
Feasible(c, s) == c.W[s] <= c.target_w /\ c.H[s] <= c.target_h

SizeRange(c) == c.min_size..c.max_size

\* The measured extent does not shrink as the size grows, over the range.
ExtentMonotone(c) ==
    \A s, t \in SizeRange(c) : s <= t => (c.W[s] <= c.W[t] /\ c.H[s] <= c.H[t])

\* C8: with an extent that is non-decreasing in the size, and some feasible
\* size in [min_size, max_size], fit_font_size returns the largest feasible
\* size of the range: it fits, and the next size is past max_size or does not
\* fit.
C8_LargestFeasible ==
    (/\ card.fn = "fit"
     /\ ExtentMonotone(card)
     /\ \E s \in SizeRange(card) : Feasible(card, s))
    => LET r == card.font.size IN
       /\ r \in SizeRange(card)
       /\ Feasible(card, r)
       /\ r + 1 > card.max_size \/ ~Feasible(card, r + 1)
       /\ \A s \in SizeRange(card) : Feasible(card, s) => s <= r

\* A monotone text whose largest feasible size lies strictly inside a range
\* of at least three sizes.
C8_Witness ==
    /\ card.fn = "fit"
    /\ ExtentMonotone(card)
    /\ card.max_size - card.min_size >= 2
    /\ card.min_size < card.font.size
    /\ card.font.size < card.max_size
    /\ Feasible(card, card.font.size)
    /\ ~Feasible(card, card.font.size + 1)

\* C9: with no feasible size in [min_size, max_size] (the range may be empty)
\* fit_font_size returns the font at min_size; the size returned is never below
\* min_size nor above max(min_size, max_size).
C9_FallsBackToMinSize ==
    card.fn = "fit"
    => LET r == card.font.size IN
       /\ (\A s \in SizeRange(card) : ~Feasible(card, s)) => r = card.min_size
       /\ card.min_size <= r
       /\ r <= (IF card.max_size >= card.min_size THEN card.max_size ELSE card.min_size)

\* A range of several sizes, none of which fits.
C9_Witness ==
    /\ card.fn = "fit"
    /\ card.max_size - card.min_size >= 2
    /\ \A s \in SizeRange(card) : ~Feasible(card, s)
    /\ card.font.size = card.min_size

\* The geometry of default_bottom_box, from h0 = int(H * ratio).
BoxFormula(c) ==
    LET h0 == IntOfProduct(c.H, c.pct) IN
    /\ c.box[1] = c.margin
    /\ c.box[3] = c.W - 2 * c.margin
    /\ c.box[2] = c.H - h0 + c.margin
    /\ c.box[4] = h0 - 2 * c.margin

IsDefaultCase(c) == c.W = 1080 /\ c.H = 1350 /\ c.pct = 23 /\ c.margin = 24

\* C10 as stated: the box follows the formula, and the 1080x1350 template with
\* ratio 0.23 and margin 24 gets (24, 1035, 1032, 263).
C10_BoxAsStated ==
    card.fn = "box"
    => /\ BoxFormula(card)
       /\ IsDefaultCase(card) => card.box = <<24, 1035, 1032, 263>>

\* C10 amended: the box follows the formula, and the 1080x1350 template with
\* ratio 0.23 and margin 24 gets (24, 1064, 1032, 262).
C10_BoxAmended ==
    card.fn = "box"
    => /\ BoxFormula(card)
       /\ IsDefaultCase(card) => card.box = <<24, 1064, 1032, 262>>

\* The default box of the 1080x1350 template has been computed.
C10_Witness ==
    /\ card.fn = "box"
    /\ IsDefaultCase(card)
    /\ card.box = <<24, 1064, 1032, 262>>

\* ------------------------------------------------------------- claims: the matcher

\* The resource names of the groups of the account whose name is the
\* configured one.
ConfiguredGroups(m) ==
    {m.groups[i].resourceName : i \in {j \in 1..Len(m.groups) :
        StripLower(m.groups[j].name) = StripLower(GMAIL_GROUP_ID)}}

\* The contact is a member of the configured group and has its birthday on
\* the day of the call.
IsMatch(m, person) ==
    /\ \E r \in ConfiguredGroups(m) : r \in person.memberships
    /\ person.birthday = <<6, m.day>>

\* C11: obtain_birthday returns exactly the (name, email) pairs of the contacts
\* that are members of the configured group, found by name among all the groups
\* of the account, and whose birthday month/day is today.
C11_ExactlyGroupMembersOfToday ==
    (match.fn = "obtain" /\ ConfiguredGroups(match) # {})
    => /\ \A i \in 1..Len(match.conns) :
            IsMatch(match, match.conns[i])
               <=> \E k \in 1..Len(match.birthdays) :
                      match.birthdays[k] = <<match.conns[i].name, match.conns[i].email>>
       /\ Len(match.birthdays) =
            Cardinality({i \in 1..Len(match.conns) : IsMatch(match, match.conns[i])})

\* ------------------------------------------------------------- claims: the drawn font

\* The measured extent does not shrink as the size grows.
DrawExtentMonotone(c) ==
    \A s, t \in DrawSizes : s <= t => (c.W[s] <= c.W[t] /\ c.H[s] <= c.H[t])

\* C12: for a fixed text and font whose extent is non-decreasing in the size,
\* the font size chosen for a box at least as wide and as tall is never smaller.
C12_FitMonotoneInBox ==
    (/\ card.fn = "draw"
     /\ DrawExtentMonotone(card)
     /\ card.w2 >= card.w1
     /\ card.h2 >= card.h1)
    => card.font2.size >= card.font1.size

\* A box larger in both directions gets a strictly larger font, and the
\* smaller box already got more than min_size.
C12_Witness ==
    /\ card.fn = "draw"
    /\ DrawExtentMonotone(card)
    /\ card.w2 > card.w1
    /\ card.h2 > card.h1
    /\ card.font1.size > MinSizeDefault
    /\ card.font2.size > card.font1.size

====
